---- MODULE Spec2Model ----
(***************************************************************************)
(* A model of the MindWatch analysis pipeline: MindWatchAnalyzer           *)
(* (mindwatch_analyzer.py), the background worker of routes.py and the     *)
(* image metrics of utils.py.                                              *)
(*                                                                         *)
(* Conventions.  A Python float that the code obtains by dividing two      *)
(* integers is the exact rational [num, den] in lowest terms, so two       *)
(* values are equal here exactly when the quotients are equal.  A          *)
(* detection carries its class label only: confidence and the box are      *)
(* copied through the pipeline unchanged.  The wall-clock 'timestamp' of   *)
(* a summary (datetime.now()) is left out.  Slot "student_i" is the        *)
(* integer i; student_tracks is the sequence of the timelines of           *)
(* student_0, student_1, ... (update_tracking inserts the keys in that     *)
(* order, so the keys of the dict are always such a prefix).               *)
(***************************************************************************)
EXTENDS Integers, Sequences, FiniteSets, TLC

----------------------------------------------------------------------------
(* Bounds of the model *)

MaxFrames == 3      \* longest video, in frames
MaxStride == 2      \* largest sample_rate of a direct process_video call
MaxDet == 2         \* most detections the detector returns for one frame
MaxResults == 2     \* cap on len(detection_results) / on a slot's timeline
MaxLen == 3         \* longest detection list given to the summary functions
MaxCalls == 2       \* most calls a caller makes on one analyzer
MaxLongFrames == 20 \* longest video of the runs that report progress

(* Program constants *)

DefaultFps == 30            \* self.fps set by __init__
DefaultSampleRate == 5      \* sample_rate passed by process_file_async
ProgressEvery == 10         \* progress callback every 10 processed frames
MockMinDetections == 2      \* random.randint(2, 5)
MockMaxDetections == 5
MockMargin == 100           \* random.randint(100, width - 100)

attentive_activities_overlapping == {"listening", "reading", "writing", "sleeping"}

attentive_activities == {"listening", "reading", "writing"}
distracted_activities == {"sleeping", "using_mobile", "turn", "turning"}

\* class_names set by __init__ (values of the default mapping), and the
\* 'turning' label the activity sets and the palette also know.
Vocabulary ==
  {"listening", "reading", "sleeping", "student", "turn", "using_mobile",
   "writing", "turning"}

\* 'activities' of mock_detection
MockActivities ==
  {"listening", "reading", "writing", "sleeping", "using_mobile", "turn"}

\* Labels the detector of the video runs draws from: one attentive and one
\* distracted (the summary functions are given the whole vocabulary).
DetLabels == {"listening", "sleeping"}

ModelTypes == {"yolov8", "yolov5", "mock"}

Instances == {1, 2}
Sessions == {1, 2}

----------------------------------------------------------------------------
(* Arithmetic *)

Min(x, y) == IF x <= y THEN x ELSE y
Max(x, y) == IF x >= y THEN x ELSE y

RECURSIVE GCD(_, _)
GCD(x, y) == IF y = 0 THEN x ELSE GCD(y, x % y)

\* n / d for d > 0 and n >= 0, in lowest terms
Rat(n, d) == LET g == GCD(n, d) IN [num |-> n \div g, den |-> d \div g]

RatTimes(r, k) == Rat(r.num * k, r.den)
RatMinusFrom(k, r) == Rat(k * r.den - r.num, r.den)
RatGT(p, q) == p.num * q.den > q.num * p.den
RatLE(p, q) == p.num * q.den <= q.num * p.den
Zero == [num |-> 0, den |-> 1]
Hundred == [num |-> 100, den |-> 1]

\* ceil(n / k)
Ceil(n, k) == (n + k - 1) \div k

\* f"{r:.1f}": r rounded to one decimal, in tenths (ties to even)
Format1(r) ==
  LET t == (r.num * 10) \div r.den
      rem2 == 2 * ((r.num * 10) % r.den)
  IN  IF rem2 > r.den \/ (rem2 = r.den /\ t % 2 = 1) THEN t + 1 ELSE t

\* All sequences over S of length lo..hi
SeqsOf(S, lo, hi) == UNION {[1..n -> S] : n \in lo..hi}

\* Number of elements of a sequence that lie in a set
CountIn(seq, S) == Cardinality({i \in 1..Len(seq) : seq[i] \in S})

\* dict(Counter(activities))
Counter(seq) ==
  [l \in {seq[i] : i \in 1..Len(seq)} |->
     Cardinality({i \in 1..Len(seq) : seq[i] = l})]

None == [type |-> "None"]

----------------------------------------------------------------------------
(* MindWatchAnalyzer: the state of one instance *)

\* __init__, lines 57-67, after the model was loaded as model_type mt
NewAnalyzer(mt) ==
  [model_type |-> mt,
   student_tracks |-> <<>>,
   frame_count |-> 0,
   fps |-> DefaultFps,
   detection_results |-> <<>>,
   student_summaries |-> <<>>]

\* A results dict: {'predictions': [...]} or the empty dict {}
Results(preds) == [predictions |-> preds]
EmptyDict == [k \in {} |-> 0]
HasPredictions(results) == "predictions" \in DOMAIN results

\* One detection record
Detection(label) == [class |-> label]

TrackEntryOfFrameCount(frame_number, fps, prediction) ==
  [frame |-> 0,
   timestamp |-> Rat(0, fps),
   activity |-> prediction.class]

\* The timeline entry update_tracking builds, lines 424-435
TrackEntry(frame_number, fps, prediction) ==
  [frame |-> frame_number,
   timestamp |-> Rat(frame_number, fps),
   activity |-> prediction.class]

\* self.student_tracks[student_id] on the defaultdict: a missing key is
\* inserted with an empty list.  i is the 1-based position of student_(i-1).
TrackLookup(tracks, i) == IF i <= Len(tracks) THEN tracks ELSE Append(tracks, <<>>)

\* The loop of update_tracking from its i-th prediction on.  The list is
\* looked up before the entry is built, and frame_number / self.fps raises
\* ZeroDivisionError when self.fps is 0.
RECURSIVE TrackLoop(_, _, _, _, _)
TrackLoop(tracks, fps, preds, i, frame_number) ==
  IF i > Len(preds)
  THEN [kind |-> "return", tracks |-> tracks]
  ELSE LET t1 == TrackLookup(tracks, i)
       IN  IF fps = 0
           THEN [kind |-> "raise", exc |-> "ZeroDivisionError", tracks |-> t1]
           ELSE TrackLoop(
                  [t1 EXCEPT ![i] = Append(@, TrackEntry(frame_number, fps, preds[i]))],
                  fps, preds, i + 1, frame_number)

update_tracking_first_only(an, results, frame_number) ==
  IF ~HasPredictions(results) \/ results.predictions = <<>>
  THEN [kind |-> "return", an |-> an]
  ELSE LET o == TrackLoop(an.student_tracks, an.fps,
                          SubSeq(results.predictions, 1, 1), 1, frame_number)
       IN  [kind |-> o.kind, an |-> [an EXCEPT !.student_tracks = o.tracks]]

\* update_tracking(results, frame_number): the outcome and the analyzer after it
update_tracking(an, results, frame_number) ==
  IF ~HasPredictions(results)
  THEN [kind |-> "return", an |-> an]
  ELSE LET o == TrackLoop(an.student_tracks, an.fps, results.predictions, 1,
                          frame_number)
       IN  IF o.kind = "return"
           THEN [kind |-> "return", an |-> [an EXCEPT !.student_tracks = o.tracks]]
           ELSE [kind |-> "raise", exc |-> o.exc,
                 an |-> [an EXCEPT !.student_tracks = o.tracks]]

reset_analysis_keeps_results(an) ==
  [an EXCEPT !.student_tracks = <<>>,
             !.frame_count = 0,
             !.student_summaries = <<>>]

\* reset_analysis
reset_analysis(an) ==
  [an EXCEPT !.student_tracks = <<>>,
             !.frame_count = 0,
             !.detection_results = <<>>,
             !.student_summaries = <<>>]

\* The activities of a timeline, line 472
Activities(tracks) == [i \in 1..Len(tracks) |-> tracks[i].activity]

ClassifyTieAttentive(attentive_percentage, distracted_percentage) ==
  IF RatLE(distracted_percentage, attentive_percentage)
  THEN "Attentive" ELSE "Distracted"

\* "Attentive" if attentive_percentage > distracted_percentage else "Distracted"
Classify(attentive_percentage, distracted_percentage) ==
  IF RatGT(attentive_percentage, distracted_percentage)
  THEN "Attentive" ELSE "Distracted"

\* The analysis of one non-empty timeline, lines 472-493
StudentAnalysis(tracks) ==
  LET activities == Activities(tracks)
      total_detections == Len(tracks)
      attentive_detections == CountIn(activities, attentive_activities)
      distracted_detections == CountIn(activities, distracted_activities)
      attentive_percentage ==
        IF total_detections > 0
        THEN RatTimes(Rat(attentive_detections, total_detections), 100) ELSE Zero
      distracted_percentage ==
        IF total_detections > 0
        THEN RatTimes(Rat(distracted_detections, total_detections), 100) ELSE Zero
  IN  [total_detections |-> total_detections,
       attentive_percentage |-> attentive_percentage,
       distracted_percentage |-> distracted_percentage,
       classification |-> Classify(attentive_percentage, distracted_percentage),
       activity_breakdown |-> Counter(activities),
       timeline |-> tracks]

\* generate_video_summary.  student_analysis is keyed by the slot number i
\* of "student_i"; slots with an empty timeline are skipped.
generate_video_summary(an) ==
  IF an.detection_results = <<>>
  THEN [type |-> "error", error |-> "No detection results available"]
  ELSE LET tracks == an.student_tracks
           ids == {i \in 0..(Len(tracks) - 1) : tracks[i + 1] # <<>>}
           total_frames == Len(an.detection_results)
       IN  [type |-> "video",
            video_duration |->
              IF an.fps > 0 THEN Rat(total_frames, an.fps) ELSE Zero,
            total_frames_analyzed |-> total_frames,
            students_tracked |-> Cardinality(ids),
            student_analysis |-> [i \in ids |-> StudentAnalysis(tracks[i + 1])]]

EngagementRateAsFraction(attentive_count, total_students) ==
  IF total_students > 0 THEN Rat(attentive_count, total_students) ELSE Zero

\* attentive_count / total_students * 100 if total_students > 0 else 0
EngagementRate(attentive_count, total_students) ==
  IF total_students > 0
  THEN RatTimes(Rat(attentive_count, total_students), 100) ELSE Zero

\* generate_image_summary(results)
generate_image_summary(results) ==
  IF results = EmptyDict \/ ~HasPredictions(results)
  THEN [type |-> "error", error |-> "No detections found"]
  ELSE LET activities ==
             [i \in 1..Len(results.predictions) |-> results.predictions[i].class]
           total_students == Len(results.predictions)
           attentive_count == CountIn(activities, attentive_activities)
           distracted_count == CountIn(activities, distracted_activities)
       IN  [type |-> "image",
            total_students |-> total_students,
            attentive_students |-> attentive_count,
            distracted_students |-> distracted_count,
            engagement_rate |-> EngagementRate(attentive_count, total_students),
            activity_breakdown |-> Counter(activities)]

\* calculate_engagement_metrics(summary, 'image'), utils.py.  summary.get
\* with default 0 reads a key an error summary does not have as 0.
calculate_engagement_metrics(summary) ==
  LET total == IF "total_students" \in DOMAIN summary
               THEN summary.total_students ELSE 0
      attentive == IF "attentive_students" \in DOMAIN summary
                   THEN summary.attentive_students ELSE 0
      engagement_rate ==
        IF total > 0 THEN RatTimes(Rat(attentive, total), 100) ELSE Zero
  IN  [type |-> "metrics",
       engagement_rate |-> engagement_rate,
       distraction_rate |-> RatMinusFrom(100, engagement_rate)]

RecordFrameByCount(an, results, frame_number) ==
  IF results # EmptyDict /\ HasPredictions(results) /\ results.predictions # <<>>
  THEN LET count == Len(an.detection_results)
           o == update_tracking(an, results, count)
       IN  IF o.kind = "raise" THEN o
           ELSE [kind |-> "return",
                 an |-> [o.an EXCEPT !.detection_results =
                           Append(@, [frame |-> count,
                                      timestamp |-> Rat(count, an.fps),
                                      detections |-> results])]]
  ELSE [kind |-> "return", an |-> an]

\* Lines 325-337 of process_video: a frame with detections is tracked and
\* its result stored; a frame without leaves the state alone.
RecordFrame(an, results, frame_number) ==
  IF results # EmptyDict /\ HasPredictions(results) /\ results.predictions # <<>>
  THEN LET o == update_tracking(an, results, frame_number)
       IN  IF o.kind = "raise" THEN o
           ELSE [kind |-> "return",
                 an |-> [o.an EXCEPT !.detection_results =
                           Append(@, [frame |-> frame_number,
                                      timestamp |-> Rat(frame_number, an.fps),
                                      detections |-> results])]]
  ELSE [kind |-> "return", an |-> an]

----------------------------------------------------------------------------
(* Videos, frames and the detector *)

\* What cv2.VideoCapture reports for a video file.  frames is the number of
\* frames cap.read() delivers, frame_count is CAP_PROP_FRAME_COUNT.
\* The videos of the model: one that does not open; videos of 640x480
\* frames at 25 and at 30 frames per second; videos of 160x120 frames; a
\* video for which OpenCV reports 0 frames per second.
Unopenable == [opens |-> FALSE]
Video(n, f, w, h) ==
  [opens |-> TRUE, frames |-> n, frame_count |-> n, fps |-> f,
   width |-> w, height |-> h]
Videos ==
  {Unopenable}
  \cup {Video(n, 25, 640, 480) : n \in 0..MaxFrames}
  \cup {Video(MaxFrames, 30, 640, 480)}
  \cup {Video(MaxFrames, 25, 160, 120)}
  \cup {Video(MaxFrames, 0, 640, 480)}

\* The pixels of frame f of the video instance a is processing
Content(a, f, v) == [owner |-> a, frame |-> f, width |-> v.width, height |-> v.height]
NoFile == [owner |-> 0, frame |-> 0, width |-> 0, height |-> 0]

\* f"temp_frame_{frame_number}.jpg", a path relative to the working
\* directory of the process: the frame number names the file.
TempFramePath(frame_number) == frame_number
TempPaths == 0..Max(MaxFrames, MaxLongFrames)

\* Detection lists of the model
Detections(labels, lo, hi) == SeqsOf({Detection(l) : l \in labels}, lo, hi)

\* mock_detection(image_path): what it can return or raise for the file
\* content img.  cv2.imread gives None for a missing file; random.randint
\* raises ValueError for an empty range.
mock_detection(img) ==
  IF img = NoFile
  THEN {[kind |-> "return", results |-> Results(<<>>)]}
  ELSE IF img.width - MockMargin < MockMargin \/ img.height - MockMargin < MockMargin
       THEN {[kind |-> "raise", exc |-> "ValueError", at |-> "mock_detection"]}
       ELSE {[kind |-> "return", results |-> Results(p)] :
               p \in Detections(MockActivities \cap DetLabels, MockMinDetections,
                                Min(MockMaxDetections, MaxDet))}

\* What the YOLO backend can return for a readable image; for a missing
\* file it raises.
BackendResults(img) ==
  IF img = NoFile THEN {}
  ELSE {Results(p) : p \in Detections(DetLabels, 0, MaxDet)}

\* detect_objects(image_path): the backend's result, or, when the backend
\* raises or there is none, whatever mock_detection does.
detect_objects(an, img) ==
  IF an.model_type \in {"yolov8", "yolov5"}
  THEN {[kind |-> "return", results |-> r] : r \in BackendResults(img)}
       \cup mock_detection(img)
  ELSE mock_detection(img)

IsSampledShifted(frame_number, sample_rate) ==
  frame_number % sample_rate = sample_rate - 1

\* frame_number % sample_rate == 0, line 313
IsSampled(frame_number, sample_rate) == frame_number % sample_rate = 0

----------------------------------------------------------------------------
(* State *)

VARIABLES
  analyzer,          \* analyzer[a]: the fields of MindWatchAnalyzer instance a
  pc,                \* pc[a]: where the process_video call on a stands
  run,               \* run[a]: the locals of that call
  ret,               \* ret[a]: what the last call on a returned or raised
  files,             \* files[p]: content of temp file p of the working directory
  progress_tracker,  \* routes.progress_tracker
  worker,            \* worker[a]: the process_file_async thread owning a
  upload,            \* upload[s]: the file of session s
  pin,               \* the detection list given to the summary functions
  calls              \* calls[a]: number of calls made on analyzer a so far

vars ==
  <<analyzer, pc, run, ret, files, progress_tracker, worker, upload, pin, calls>>

NoRun == [op |-> "none"]
NoRet == [op |-> "none", kind |-> "none"]
NoWorker == [wpc |-> "none"]
NoUpload == [file_type |-> "none"]
NoEntry == [status |-> "unknown"]
PathNone == [type |-> "None"]
OutputPath == [type |-> "path"]

\* The progress_callback of process_file_async, line 112
update_progress(tracker, session_id, progress) ==
  [tracker EXCEPT ![session_id].progress =
     Rat(10 * 5 * progress.den + 4 * progress.num, 5 * progress.den)]

----------------------------------------------------------------------------
(* process_video, statement by statement *)

Returned(a, value) == [ret EXCEPT ![a] = value]

\* An exception leaves process_video: nothing after the raising statement
\* runs (the function has no try/finally), and the locals are gone.  cap
\* and out tell whether the capture and the writer were released.
Raise(a, exc, at, cap, out) ==
  /\ pc' = [pc EXCEPT ![a] = "idle"]
  /\ run' = [run EXCEPT ![a] = NoRun]
  /\ ret' = Returned(a, [op |-> "process_video", kind |-> "raise",
                         exc |-> exc, at |-> at, cap |-> cap, out |-> out])

\* process_video returns (path, summary)
Return(a, path, summary, cap, out) ==
  /\ pc' = [pc EXCEPT ![a] = "idle"]
  /\ run' = [run EXCEPT ![a] = NoRun]
  /\ ret' = Returned(a, [op |-> "process_video", kind |-> "return",
                         path |-> path, summary |-> summary,
                         cap |-> cap, out |-> out])

ProcessVideoBeginAfterReset(a, v, k, output, cb) ==
  /\ pc[a] = "idle"
  /\ LET locals ==
           [op |-> "process_video", video |-> v, sample_rate |-> k,
            output |-> output, cb |-> cb, cap |-> "unopened", out |-> "none",
            total_frames |-> 0, frame_number |-> 0, processed_frames |-> 0,
            results |-> EmptyDict, exists |-> FALSE, detected |-> <<>>,
            reported |-> <<>>]
     IN  IF ~v.opens
         THEN /\ Return(a, PathNone, None, "unopened", "none")
              /\ analyzer' = [analyzer EXCEPT ![a] = reset_analysis(@)]
         ELSE /\ analyzer' = [analyzer EXCEPT
                                ![a] = [reset_analysis(@) EXCEPT !.fps = v.fps]]
              /\ IF v.fps = 0
                 THEN Raise(a, "ZeroDivisionError", "duration", "open", "none")
                 ELSE /\ run' = [run EXCEPT ![a] =
                                   [locals EXCEPT
                                      !.cap = "open",
                                      !.total_frames = v.frame_count,
                                      !.out = IF output THEN "open" ELSE "none"]]
                      /\ pc' = [pc EXCEPT ![a] = "read"]
                      /\ UNCHANGED ret
  /\ UNCHANGED <<files, progress_tracker>>

\* Lines 283-305: open the capture, read its properties, open the writer.
\* The duration print of line 295 divides total_frames by self.fps.
ProcessVideoBegin(a, v, k, output, cb) ==
  /\ pc[a] = "idle"
  /\ LET locals ==
           [op |-> "process_video", video |-> v, sample_rate |-> k,
            output |-> output, cb |-> cb, cap |-> "unopened", out |-> "none",
            total_frames |-> 0, frame_number |-> 0, processed_frames |-> 0,
            results |-> EmptyDict, exists |-> FALSE, detected |-> <<>>,
            reported |-> <<>>]
     IN  IF ~v.opens
         THEN /\ Return(a, PathNone, None, "unopened", "none")
              /\ UNCHANGED analyzer
         ELSE /\ analyzer' = [analyzer EXCEPT ![a].fps = v.fps]
              /\ IF v.fps = 0
                 THEN Raise(a, "ZeroDivisionError", "duration", "open", "none")
                 ELSE /\ run' = [run EXCEPT ![a] =
                                   [locals EXCEPT
                                      !.cap = "open",
                                      !.total_frames = v.frame_count,
                                      !.out = IF output THEN "open" ELSE "none"]]
                      /\ pc' = [pc EXCEPT ![a] = "read"]
                      /\ UNCHANGED ret
  /\ UNCHANGED <<files, progress_tracker>>

\* Lines 308-313 and 352: read the next frame; leave the loop at the end of
\* the video, go on to the next frame when this one is not sampled.
ReadFrame(a) ==
  /\ pc[a] = "read"
  /\ LET l == run[a]
     IN  IF l.frame_number >= l.video.frames
         THEN /\ pc' = [pc EXCEPT ![a] = "cleanup"]
              /\ UNCHANGED run
         ELSE IF IsSampled(l.frame_number, l.sample_rate)
              THEN /\ pc' = [pc EXCEPT ![a] = "imwrite"]
                   /\ UNCHANGED run
              ELSE /\ run' = [run EXCEPT ![a].frame_number = @ + 1]
                   /\ UNCHANGED pc
  /\ UNCHANGED <<analyzer, ret, files, progress_tracker, worker, upload, pin, calls>>

\* Lines 315-316: cv2.imwrite(temp_frame_path, frame)
WriteTempFrame(a) ==
  /\ pc[a] = "imwrite"
  /\ files' = [files EXCEPT ![TempFramePath(run[a].frame_number)] =
                 Content(a, run[a].frame_number, run[a].video)]
  /\ pc' = [pc EXCEPT ![a] = "detect"]
  /\ UNCHANGED <<analyzer, run, ret, progress_tracker, worker, upload, pin, calls>>

\* Line 319: results = self.detect_objects(temp_frame_path).  detected
\* records each call: the frame number and the image the file held.
DetectObjects(a) ==
  /\ pc[a] = "detect"
  /\ LET img == files[TempFramePath(run[a].frame_number)]
         seen == Append(run[a].detected,
                        [frame |-> run[a].frame_number, image |-> img])
     IN  \E o \in detect_objects(analyzer[a], img) :
           IF o.kind = "return"
           THEN /\ run' = [run EXCEPT ![a].detected = seen,
                                      ![a].results = o.results]
                /\ pc' = [pc EXCEPT ![a] = "exists"]
                /\ UNCHANGED ret
           ELSE Raise(a, o.exc, o.at, run[a].cap, run[a].out)
  /\ UNCHANGED <<analyzer, files, progress_tracker, worker, upload, pin, calls>>

\* Line 322: if os.path.exists(temp_frame_path)
CheckTempExists(a) ==
  /\ pc[a] = "exists"
  /\ LET there == files[TempFramePath(run[a].frame_number)] # NoFile
     IN  /\ run' = [run EXCEPT ![a].exists = there]
         /\ pc' = [pc EXCEPT ![a] = IF there THEN "remove" ELSE "record"]
  /\ UNCHANGED <<analyzer, ret, files, progress_tracker, worker, upload, pin, calls>>

\* Line 323: os.remove(temp_frame_path); FileNotFoundError when the file
\* went away after the check.
RemoveTemp(a) ==
  /\ pc[a] = "remove"
  /\ LET path == TempFramePath(run[a].frame_number)
     IN  IF files[path] = NoFile
         THEN /\ Raise(a, "FileNotFoundError", "os.remove", run[a].cap, run[a].out)
              /\ UNCHANGED files
         ELSE /\ files' = [files EXCEPT ![path] = NoFile]
              /\ pc' = [pc EXCEPT ![a] = "record"]
              /\ UNCHANGED <<run, ret>>
  /\ UNCHANGED <<analyzer, progress_tracker, worker, upload, pin, calls>>

\* Lines 325-352: track and store the frame's result, write the output
\* frame, count the frame and report progress every tenth processed frame.
RecordStep(a) ==
  /\ pc[a] = "record"
  /\ LET l == run[a]
         o == RecordFrame(analyzer[a], l.results, l.frame_number)
         processed == l.processed_frames + 1
         reports == l.cb /\ processed % ProgressEvery = 0
     IN  /\ analyzer' = [analyzer EXCEPT ![a] = o.an]
         /\ IF o.kind = "raise"
            THEN /\ Raise(a, o.exc, "update_tracking", l.cap, l.out)
                 /\ UNCHANGED progress_tracker
            ELSE IF reports /\ l.total_frames = 0
            THEN /\ Raise(a, "ZeroDivisionError", "progress", l.cap, l.out)
                 /\ UNCHANGED progress_tracker
            ELSE LET progress ==
                       IF reports
                       THEN RatTimes(Rat(l.frame_number, l.total_frames), 100)
                       ELSE Zero
                 IN  /\ run' = [run EXCEPT
                                  ![a].processed_frames = processed,
                                  ![a].frame_number = @ + 1,
                                  ![a].reported =
                                     IF reports THEN Append(@, progress) ELSE @]
                     /\ progress_tracker' =
                          IF reports /\ worker[a] # NoWorker
                          THEN update_progress(progress_tracker,
                                               worker[a].session_id, progress)
                          ELSE progress_tracker
                     /\ pc' = [pc EXCEPT ![a] = "read"]
                     /\ UNCHANGED ret
  /\ UNCHANGED <<files, worker, upload, pin, calls>>

\* Lines 355-364: release the capture and the writer, build the summary
\* and return (output_path, summary).
Cleanup(a) ==
  /\ pc[a] = "cleanup"
  /\ Return(a, IF run[a].output THEN OutputPath ELSE PathNone,
            generate_video_summary(analyzer[a]), "released",
            IF run[a].out = "open" THEN "released" ELSE run[a].out)
  /\ UNCHANGED <<analyzer, files, progress_tracker, worker, upload, pin, calls>>

----------------------------------------------------------------------------
(* Calls on an analyzer a caller holds *)

\* Number of frames process_video samples of video v at stride k
SampledCount(v, k) == IF v.opens /\ v.fps # 0 THEN Ceil(v.frames, k) ELSE 0

Free(a) == pc[a] = "idle" /\ worker[a] = NoWorker

\* The length of the longest timeline (that of student_0), which bounds
\* len(detection_results) of a video run too
LongestTimeline(an) ==
  Max(Len(an.detection_results),
      IF an.student_tracks = <<>> THEN 0 ELSE Len(an.student_tracks[1]))

\* The caller makes one more call on an analyzer it has used before
Again(a) ==
  /\ Free(a)
  /\ 0 < calls[a] /\ calls[a] < MaxCalls
  /\ calls' = [calls EXCEPT ![a] = @ + 1]

\* analyzer.process_video(video_path, output_path, sample_rate, callback)
\* on a newly constructed analyzer
ProcessVideoCall(a) ==
  /\ Free(a)
  /\ calls[a] = 0
  /\ calls' = [calls EXCEPT ![a] = 1]
  /\ \E v \in Videos, k \in 1..MaxStride, output \in BOOLEAN :
       ProcessVideoBegin(a, v, k, output, FALSE)
  /\ UNCHANGED <<worker, upload, pin>>

\* analyzer.process_video(...) on an analyzer used before
ProcessVideoAgain(a) ==
  /\ Again(a)
  /\ \E v \in Videos, k \in 1..MaxStride, output \in BOOLEAN :
       /\ LongestTimeline(analyzer[a]) + SampledCount(v, k) <= MaxResults
       /\ ProcessVideoBegin(a, v, k, output, FALSE)
  /\ UNCHANGED <<worker, upload, pin>>

DirectResults == {EmptyDict} \cup {Results(p) : p \in Detections(DetLabels, 0, MaxDet)}
DirectFrames == {0, DefaultSampleRate}

\* analyzer.update_tracking(results, frame_number)
UpdateTrackingCall(a) ==
  /\ Again(a)
  /\ LongestTimeline(analyzer[a]) < MaxResults
  /\ \E results \in DirectResults, frame_number \in DirectFrames :
       LET o == update_tracking(analyzer[a], results, frame_number)
       IN  /\ analyzer' = [analyzer EXCEPT ![a] = o.an]
           /\ ret' = Returned(a, [op |-> "update_tracking", kind |-> o.kind,
                                  results |-> results,
                                  frame_number |-> frame_number])
  /\ UNCHANGED <<pc, run, files, progress_tracker, worker, upload, pin>>

\* analyzer.generate_video_summary()
GenerateVideoSummaryCall(a) ==
  /\ Again(a)
  /\ ret' = Returned(a, [op |-> "generate_video_summary", kind |-> "return",
                         summary |-> generate_video_summary(analyzer[a])])
  /\ UNCHANGED <<analyzer, pc, run, files, progress_tracker, worker, upload, pin>>

\* analyzer.reset_analysis()
ResetAnalysisCall(a) ==
  /\ Again(a)
  /\ analyzer' = [analyzer EXCEPT ![a] = reset_analysis(@)]
  /\ ret' = Returned(a, [op |-> "reset_analysis", kind |-> "return"])
  /\ UNCHANGED <<pc, run, files, progress_tracker, worker, upload, pin>>

----------------------------------------------------------------------------
(* Spec: a newly constructed analyzer processes one video, as in           *)
(* process_file_async.  SpecReuse: the caller goes on using the analyzer.  *)

Caller == 1

Init ==
  /\ \E mt \in ModelTypes : analyzer = [a \in Instances |-> NewAnalyzer(mt)]
  /\ pc = [a \in Instances |-> "idle"]
  /\ run = [a \in Instances |-> NoRun]
  /\ ret = [a \in Instances |-> NoRet]
  /\ files = [p \in TempPaths |-> NoFile]
  /\ progress_tracker = [s \in Sessions |-> NoEntry]
  /\ worker = [a \in Instances |-> NoWorker]
  /\ upload = [s \in Sessions |-> NoUpload]
  /\ pin = <<>>
  /\ calls = [a \in Instances |-> 0]

Next ==
  \/ ProcessVideoCall(Caller)
  \/ ReadFrame(Caller)
  \/ WriteTempFrame(Caller)
  \/ DetectObjects(Caller)
  \/ CheckTempExists(Caller)
  \/ RemoveTemp(Caller)
  \/ RecordStep(Caller)
  \/ Cleanup(Caller)

Spec == Init /\ [][Next]_vars

NextReuse ==
  \/ Next
  \/ ProcessVideoAgain(Caller)
  \/ UpdateTrackingCall(Caller)
  \/ GenerateVideoSummaryCall(Caller)
  \/ ResetAnalysisCall(Caller)

SpecReuse == Init /\ [][NextReuse]_vars

----------------------------------------------------------------------------
(* SpecWeb: routes.py.  Each start_processing request starts a thread     *)
(* running process_file_async on an analyzer of its own; the threads share *)
(* progress_tracker and the working directory.                             *)

\* An uploaded image file: its pixels, or NoFile when cv2.imread cannot
\* decode it
Image(w, h) == [owner |-> 0, frame |-> 0, width |-> w, height |-> h]

\* The files users upload in the model
WebVideos ==
  {Unopenable, Video(1, 25, 640, 480), Video(1, 25, 160, 120), Video(1, 0, 640, 480)}
WebImages == {Image(640, 480), Image(160, 120), NoFile}
Uploads ==
  {[file_type |-> "video", file |-> v] : v \in WebVideos}
  \cup {[file_type |-> "image", file |-> i] : i \in WebImages}

\* process_single_image(image_path, output_path): what it can return or
\* raise for the image img
process_single_image(an, img) ==
  {IF o.kind = "raise" THEN o
   ELSE IF o.results = EmptyDict \/ o.results.predictions = <<>> \/ img = NoFile
   THEN [kind |-> "return", path |-> PathNone, results |-> None, summary |-> None]
   ELSE [kind |-> "return", path |-> OutputPath, results |-> o.results,
         summary |-> generate_image_summary(o.results)] :
     o \in detect_objects(an, img)}

\* progress_tracker.get(session_id, {'progress': 0, 'status': 'unknown'})
get_progress(tracker, session_id) ==
  IF tracker[session_id] = NoEntry
  THEN [progress |-> Zero, status |-> "unknown"]
  ELSE tracker[session_id]

\* upload_file: the file is saved under a new session id
UploadFile(s) ==
  /\ upload[s] = NoUpload
  /\ \A t \in Sessions : t < s => upload[t] # NoUpload
  /\ \E u \in Uploads : upload' = [upload EXCEPT ![s] = u]
  /\ UNCHANGED <<analyzer, pc, run, ret, files, progress_tracker, worker, pin, calls>>

\* The threads of the process, in the order they were started
FreeThreads == {w \in Instances : worker[w] = NoWorker}

\* start_processing: initialise the session's entry and start a thread
StartProcessing(s) ==
  /\ upload[s] # NoUpload
  /\ FreeThreads # {}
  /\ LET w == CHOOSE x \in FreeThreads : \A y \in FreeThreads : x <= y
     IN  worker' = [worker EXCEPT ![w] =
                      [wpc |-> "start", session_id |-> s,
                       file_type |-> upload[s].file_type, file |-> upload[s].file]]
  /\ progress_tracker' = [progress_tracker EXCEPT ![s] =
                            [progress |-> Zero, status |-> "starting",
                             error |-> None]]
  /\ UNCHANGED <<analyzer, pc, run, ret, files, upload, pin, calls>>

At(w, where) == worker[w] # NoWorker /\ worker[w].wpc = where
Goto(w, where) == worker' = [worker EXCEPT ![w].wpc = where]

\* process_file_async, lines 98-103: construct the analyzer, status
\* 'analyzing', progress 10
WorkerInit(w) ==
  /\ At(w, "start")
  /\ analyzer' = [analyzer EXCEPT ![w] = NewAnalyzer(@.model_type)]
  /\ progress_tracker' =
       [progress_tracker EXCEPT ![worker[w].session_id].status = "analyzing",
                                ![worker[w].session_id].progress = Rat(10, 1)]
  /\ Goto(w, "process")
  /\ UNCHANGED <<pc, run, ret, files, upload, pin, calls>>

\* Lines 108-122: call process_video with sample_rate=5 and the progress
\* callback, or process_single_image
WorkerProcess(w) ==
  /\ At(w, "process")
  /\ Goto(w, "call")
  /\ IF worker[w].file_type = "video"
     THEN ProcessVideoBegin(w, worker[w].file, DefaultSampleRate, TRUE, TRUE)
     ELSE /\ \E o \in process_single_image(analyzer[w], worker[w].file) :
               ret' = Returned(w, [op |-> "process_single_image"] @@ o)
          /\ UNCHANGED <<analyzer, pc, run, files, progress_tracker>>
  /\ UNCHANGED <<upload, pin, calls>>

\* The call has ended.  Lines 125-126 when it returned: progress 90,
\* status 'generating_report'.  Lines 144-147 when it raised: status
\* 'error' and the exception's text.
WorkerAfterCall(w) ==
  /\ At(w, "call")
  /\ pc[w] = "idle"
  /\ LET s == worker[w].session_id
     IN  IF ret[w].kind = "raise"
         THEN /\ progress_tracker' =
                   [progress_tracker EXCEPT ![s].status = "error",
                                            ![s].error = ret[w].exc]
              /\ Goto(w, "done")
         ELSE /\ progress_tracker' =
                   [progress_tracker EXCEPT ![s].progress = Rat(90, 1),
                                            ![s].status = "generating_report"]
              /\ Goto(w, "report")
  /\ UNCHANGED <<analyzer, pc, run, ret, files, upload, pin, calls>>

\* Lines 129-142: generate_pdf_report catches every exception and returns
\* False, json.dump writes any summary (None as null); then progress 100,
\* status 'completed' and the results of the call.
WorkerComplete(w) ==
  /\ At(w, "report")
  /\ LET s == worker[w].session_id
         e == progress_tracker[s]
     IN  progress_tracker' =
           [progress_tracker EXCEPT ![s] =
              [progress |-> Hundred, status |-> "completed", error |-> e.error,
               result_path |-> ret[w].path, pdf_path |-> OutputPath,
               summary |-> ret[w].summary]]
  /\ Goto(w, "done")
  /\ UNCHANGED <<analyzer, pc, run, ret, files, upload, pin, calls>>

NextWeb ==
  \/ \E s \in Sessions : UploadFile(s)
  \/ \E s \in Sessions : StartProcessing(s)
  \/ \E w \in Instances : WorkerInit(w)
  \/ \E w \in Instances : WorkerProcess(w)
  \/ \E w \in Instances : WorkerAfterCall(w)
  \/ \E w \in Instances : WorkerComplete(w)
  \/ \E w \in Instances : ReadFrame(w)
  \/ \E w \in Instances : WriteTempFrame(w)
  \/ \E w \in Instances : DetectObjects(w)
  \/ \E w \in Instances : CheckTempExists(w)
  \/ \E w \in Instances : RemoveTemp(w)
  \/ \E w \in Instances : RecordStep(w)
  \/ \E w \in Instances : Cleanup(w)

SpecWeb == Init /\ [][NextWeb]_vars

----------------------------------------------------------------------------
(* SpecSummary: the summary functions on a detection list pin.  The        *)
(* analyzer is in the state a 30 fps video sampled with stride 5 leaves    *)
(* when its i-th sampled frame holds the one detection pin[i].             *)

RECURSIVE AfterFrames(_, _, _)
AfterFrames(an, preds, i) ==
  IF i > Len(preds) THEN an
  ELSE AfterFrames(
         RecordFrame(an, Results(<<preds[i]>>), (i - 1) * DefaultSampleRate).an,
         preds, i + 1)

\* generate_image_summary(results), as process_single_image and any other
\* caller invoke it
GenerateImageSummaryCall(a) ==
  /\ Free(a)
  /\ \E results \in {Results(pin), EmptyDict} :
       ret' = Returned(a, [op |-> "generate_image_summary", kind |-> "return",
                           results |-> results,
                           summary |-> generate_image_summary(results)])
  /\ UNCHANGED <<analyzer, pc, run, files, progress_tracker, worker, upload, pin,
                 calls>>

\* calculate_engagement_metrics(summary, 'image') on the summary just made
CalculateEngagementMetricsCall(a) ==
  /\ Free(a)
  /\ ret[a].op = "generate_image_summary"
  /\ ret' = Returned(a, [op |-> "calculate_engagement_metrics", kind |-> "return",
                         summary |-> ret[a].summary,
                         metrics |-> calculate_engagement_metrics(ret[a].summary)])
  /\ UNCHANGED <<analyzer, pc, run, files, progress_tracker, worker, upload, pin,
                 calls>>

InitSummary ==
  /\ pin \in Detections(Vocabulary, 0, MaxLen)
  /\ \E mt \in {"mock"} :
       analyzer = [a \in Instances |->
                     IF a = Caller THEN AfterFrames(NewAnalyzer(mt), pin, 1)
                     ELSE NewAnalyzer(mt)]
  /\ pc = [a \in Instances |-> "idle"]
  /\ run = [a \in Instances |-> NoRun]
  /\ ret = [a \in Instances |-> NoRet]
  /\ files = [p \in TempPaths |-> NoFile]
  /\ progress_tracker = [s \in Sessions |-> NoEntry]
  /\ worker = [a \in Instances |-> NoWorker]
  /\ upload = [s \in Sessions |-> NoUpload]
  /\ calls = [a \in Instances |-> IF a = Caller THEN 1 ELSE 0]

\* analyzer.process_single_image(image_path, output_path)
ProcessSingleImageCall(a) ==
  /\ Free(a)
  /\ \E img \in WebImages : \E o \in process_single_image(analyzer[a], img) :
       ret' = Returned(a, [op |-> "process_single_image", image |-> img] @@ o)
  /\ UNCHANGED <<analyzer, pc, run, files, progress_tracker, worker, upload, pin,
                 calls>>

NextSummary ==
  \/ GenerateImageSummaryCall(Caller)
  \/ CalculateEngagementMetricsCall(Caller)
  \/ GenerateVideoSummaryCall(Caller)
  \/ ProcessSingleImageCall(Caller)

SpecSummary == InitSummary /\ [][NextSummary]_vars

----------------------------------------------------------------------------
(* Properties of the frame sampler and of update_tracking *)

\* C1: while process_video runs with stride k on a video of N frames, the
\* frames passed to detect_objects so far are exactly 0, k, 2k, ... below
\* the number of frames read (in this order, each once, all below N), and
\* when the loop has ended they are ceil(N/k) frames.
C1_SamplerExact ==
  \A a \in Instances :
    pc[a] # "idle" =>
      LET l == run[a]
          d == l.detected
          k == l.sample_rate
          N == l.video.frames
          past == pc[a] \in {"exists", "remove", "record"}
      IN  /\ \A i \in 1..Len(d) : d[i].frame = (i - 1) * k /\ d[i].frame < N
          /\ Len(d) = Ceil(l.frame_number, k) + (IF past THEN 1 ELSE 0)
          /\ pc[a] = "cleanup" => Len(d) = Ceil(N, k)

C1_Witness ==
  /\ pc[Caller] = "cleanup"
  /\ run[Caller].video.frames = 3
  /\ run[Caller].sample_rate = 2
  /\ Len(run[Caller].detected) = 2
  /\ run[Caller].detected[2].frame = 2

\* The step in which process_video calls update_tracking(results,
\* frame_number): the frame has detections.
TrackingStep(a) ==
  /\ pc[a] = "record"
  /\ pc'[a] = "read"
  /\ run[a].results.predictions # <<>>

SlotOf(tracks, i) == IF i <= Len(tracks) THEN tracks[i] ELSE <<>>

IsPrefix(s, t) == Len(s) <= Len(t) /\ \A j \in 1..Len(s) : s[j] = t[j]

----------------------------------------------------------------------------
(* Properties of the summaries *)

VideoSummaryReturned(a) ==
  /\ ret[a].op = "generate_video_summary"
  /\ ret[a].summary.type = "video"

ImageSummaryReturned(a) ==
  /\ ret[a].op = "generate_image_summary"
  /\ ret[a].summary.type = "image"

\* The number of timeline entries of slot i of a whose activity is in S
EntriesIn(a, i, S) ==
  Cardinality({j \in 1..Len(analyzer[a].student_tracks[i + 1]) :
                 analyzer[a].student_tracks[i + 1][j].activity \in S})

\* C3: in a video summary a slot is 'Attentive' exactly when more of its
\* timeline entries are listening, reading or writing than are sleeping,
\* using_mobile, turn or turning; otherwise (a tie, or no entry of either
\* kind) it is 'Distracted'.
C3_ClassificationRule ==
  \A a \in Instances :
    VideoSummaryReturned(a) =>
      \A i \in DOMAIN ret[a].summary.student_analysis :
        LET c == ret[a].summary.student_analysis[i].classification
            att == EntriesIn(a, i, {"listening", "reading", "writing"})
            dis == EntriesIn(a, i, {"sleeping", "using_mobile", "turn", "turning"})
        IN  /\ c \in {"Attentive", "Distracted"}
            /\ c = "Attentive" <=> att > dis

\* a tie between one attentive and one distracted entry
C3_Witness ==
  /\ VideoSummaryReturned(Caller)
  /\ pin = <<Detection("writing"), Detection("turning")>>
  /\ ret[Caller].summary.student_analysis[0].classification = "Distracted"

InBothSets == {"listening", "reading", "writing",
               "sleeping", "using_mobile", "turn", "turning"}

\* C4: an image summary has attentive_students + distracted_students <=
\* total_students, total_students is the number of detections, and the two
\* sides are equal exactly when every label is in one of the two sets; in a
\* video summary the attentive and distracted shares of a slot are together
\* at most the whole of its total_detections entries.
C4_CountsWithinTotal ==
  \A a \in Instances :
    /\ ImageSummaryReturned(a) =>
         LET s == ret[a].summary
             preds == ret[a].results.predictions
         IN  /\ s.total_students = Len(preds)
             /\ s.attentive_students + s.distracted_students <= s.total_students
             /\ (s.attentive_students + s.distracted_students = s.total_students)
                  <=> \A j \in 1..Len(preds) : preds[j].class \in InBothSets
    /\ VideoSummaryReturned(a) =>
         \A i \in DOMAIN ret[a].summary.student_analysis :
           LET sa == ret[a].summary.student_analysis[i]
               pa == sa.attentive_percentage
               pd == sa.distracted_percentage
           IN  /\ sa.total_detections = Len(analyzer[a].student_tracks[i + 1])
               /\ pa.num * pd.den + pd.num * pa.den <= 100 * pa.den * pd.den
               /\ pa.num * sa.total_detections =
                    100 * pa.den * EntriesIn(a, i, {"listening", "reading", "writing"})
               /\ pd.num * sa.total_detections =
                    100 * pd.den *
                      EntriesIn(a, i, {"sleeping", "using_mobile", "turn", "turning"})

\* a detection of class 'student' counts in the total only
C4_Witness ==
  /\ ImageSummaryReturned(Caller)
  /\ ret[Caller].summary.total_students = 3
  /\ ret[Caller].summary.attentive_students = 1
  /\ ret[Caller].summary.distracted_students = 1

TwoReadingOneSleeping(preds) ==
  /\ Len(preds) = 3
  /\ Cardinality({j \in 1..3 : preds[j].class = "reading"}) = 2
  /\ Cardinality({j \in 1..3 : preds[j].class = "sleeping"}) = 1

\* C5: engagement_rate of an image summary is attentive_students /
\* total_students * 100, lies in [0, 100] and is 0 when total_students is
\* 0; calculate_engagement_metrics computes the same rate from the summary;
\* two 'reading' and one 'sleeping' give 3, 2, 1 and 66.7.
C5_EngagementRate ==
  \A a \in Instances :
    /\ ImageSummaryReturned(a) =>
         LET s == ret[a].summary
             r == s.engagement_rate
         IN  /\ r.den > 0
             /\ r.num * s.total_students = 100 * s.attentive_students * r.den
             /\ 0 <= r.num /\ r.num <= 100 * r.den
             /\ s.total_students = 0 => r.num = 0
             /\ TwoReadingOneSleeping(ret[a].results.predictions) =>
                  /\ s.total_students = 3
                  /\ s.attentive_students = 2
                  /\ s.distracted_students = 1
                  /\ Format1(r) = 667
    /\ (ret[a].op = "calculate_engagement_metrics" /\ ret[a].summary.type = "image") =>
         /\ ret[a].metrics.engagement_rate = ret[a].summary.engagement_rate
         /\ RatLE(ret[a].metrics.engagement_rate, Hundred)

C5_Witness ==
  /\ ImageSummaryReturned(Caller)
  /\ TwoReadingOneSleeping(ret[Caller].results.predictions)
  /\ Format1(ret[Caller].summary.engagement_rate) = 667

\* an empty detection list: no division by zero, rate 0
C5_WitnessEmpty ==
  /\ ImageSummaryReturned(Caller)
  /\ ret[Caller].summary.total_students = 0

----------------------------------------------------------------------------
(* reset_analysis against a new instance *)

\* What a caller can see of update_tracking(results, frame_number) on an:
\* whether it returned or raised, the timelines and stored results it
\* left, and the summary generate_video_summary then gives.
Observed(an, results, frame_number) ==
  LET o == update_tracking(an, results, frame_number)
  IN  [kind |-> o.kind,
       student_tracks |-> o.an.student_tracks,
       detection_results |-> o.an.detection_results,
       summary |-> generate_video_summary(o.an)]

\* C6: right after reset_analysis the analyzer answers as a newly
\* constructed one does: generate_video_summary gives the same summary, and
\* update_tracking with any results and frame number ends the same way and
\* leaves the same timelines (timestamps included), stored results and
\* summary.
C6_ResetIsFresh ==
  \A a \in Instances :
    (pc[a] = "idle" /\ ret[a].op = "reset_analysis") =>
      LET fresh == NewAnalyzer(analyzer[a].model_type)
      IN  /\ generate_video_summary(analyzer[a]) = generate_video_summary(fresh)
          /\ \A results \in DirectResults, frame_number \in DirectFrames :
               Observed(analyzer[a], results, frame_number)
                 = Observed(fresh, results, frame_number)

----------------------------------------------------------------------------
(* Detection failures and the temporary frame files *)

\* C9: no process_video call ends by an exception that came out of
\* detect_objects; whatever the backend does, detection gives a result and
\* the run goes on.
C9_DetectionNeverAborts ==
  \A a \in Instances :
    ~(/\ ret[a].op = "process_video"
      /\ ret[a].kind = "raise"
      /\ ret[a].at = "mock_detection")

\* C10: once the detection step of a sampled frame is over, and whenever
\* process_video has returned or raised, no temporary frame file written by
\* that run exists.
C10_TempFilesRemoved ==
  \A a \in Instances :
    (\/ pc[a] \in {"record", "read", "cleanup"}
     \/ pc[a] = "idle" /\ ret[a].op = "process_video") =>
      \A p \in TempPaths : files[p].owner # a

----------------------------------------------------------------------------
(* Concurrent sessions and the status the user sees *)

\* The threads started so far work for sessions different from one another
DistinctSessions ==
  \A v, w \in Instances :
    (v # w /\ worker[v] # NoWorker /\ worker[w] # NoWorker) =>
      worker[v].session_id # worker[w].session_id

\* C7: when the threads of different sessions run process_video at the
\* same time, every image a run has passed to its detector for frame f is
\* frame f of that run's own video: not another run's frame, and not a file
\* another run has deleted.
C7_RunsIsolated ==
  DistinctSessions =>
    \A a \in Instances :
      pc[a] # "idle" =>
        \A i \in 1..Len(run[a].detected) :
          run[a].detected[i].image
            = Content(a, run[a].detected[i].frame, run[a].video)

\* C8: when the uploaded video cannot be opened, process_video returns
\* without raising and without a summary, the analyzer is as constructed,
\* and once the session's thread has ended the status the user is given is
\* 'error' with a message, not 'completed'.
C8_OpenFailureIsError ==
  DistinctSessions =>
    \A w \in Instances :
      (At(w, "done") /\ worker[w].file_type = "video" /\ ~worker[w].file.opens) =>
        /\ ret[w].op = "process_video"
        /\ ret[w].kind = "return"
        /\ ret[w].summary = None
        /\ analyzer[w] = NewAnalyzer(analyzer[w].model_type)
        /\ LET entry == get_progress(progress_tracker, worker[w].session_id)
           IN  /\ entry.status = "error"
               /\ entry.error # None

----------------------------------------------------------------------------
(* Release of the capture and the writer *)

\* C11: whenever process_video has ended after opening the video, by a
\* return or by an exception, the capture has been released, and so has
\* the output writer if one was opened.
C11_CaptureReleased ==
  \A a \in Instances :
    (pc[a] = "idle" /\ ret[a].op = "process_video" /\ ret[a].cap # "unopened") =>
      /\ ret[a].cap = "released"
      /\ ret[a].out \in {"none", "released"}

----------------------------------------------------------------------------
(* SpecProgress: process_video with a progress callback on videos long     *)
(* enough for the callback to be made.  The frames show an empty room: the *)
(* YOLO backend finds nothing in any of them.                              *)

\* A video of n frames whose header gives c as CAP_PROP_FRAME_COUNT
VideoReporting(n, c) == [Video(n, 25, 640, 480) EXCEPT !.frame_count = c]

\* Videos whose header is right, gives half the frames, or gives none
LongVideos ==
  {VideoReporting(n, c) :
     n \in {ProgressEvery, MaxLongFrames}, c \in {ProgressEvery \div 2, 0}}
  \cup {VideoReporting(n, n) : n \in {ProgressEvery, MaxLongFrames}}

\* analyzer.process_video(video_path, output_path, sample_rate, callback)
\* on a newly constructed analyzer, with a callback
ProcessVideoCallback(a) ==
  /\ Free(a)
  /\ calls[a] = 0
  /\ calls' = [calls EXCEPT ![a] = 1]
  /\ \E v \in LongVideos, k \in 1..MaxStride, output \in BOOLEAN :
       ProcessVideoBegin(a, v, k, output, TRUE)
  /\ UNCHANGED <<worker, upload, pin>>

\* Line 319 on a frame in which the backend detects nobody
DetectObjectsEmpty(a) ==
  /\ pc[a] = "detect"
  /\ LET img == files[TempFramePath(run[a].frame_number)]
         seen == Append(run[a].detected,
                        [frame |-> run[a].frame_number, image |-> img])
     IN  \E o \in detect_objects(analyzer[a], img) :
           /\ o.kind = "return"
           /\ o.results.predictions = <<>>
           /\ run' = [run EXCEPT ![a].detected = seen, ![a].results = o.results]
           /\ pc' = [pc EXCEPT ![a] = "exists"]
  /\ UNCHANGED <<analyzer, ret, files, progress_tracker, worker, upload, pin, calls>>

InitProgress ==
  /\ Init
  /\ analyzer[Caller].model_type \in {"yolov8", "yolov5"}

NextProgress ==
  \/ ProcessVideoCallback(Caller)
  \/ ReadFrame(Caller)
  \/ WriteTempFrame(Caller)
  \/ DetectObjectsEmpty(Caller)
  \/ CheckTempExists(Caller)
  \/ RemoveTemp(Caller)
  \/ RecordStep(Caller)
  \/ Cleanup(Caller)

SpecProgress == InitProgress /\ [][NextProgress]_vars

\* C12: while process_video runs with a callback, the callback has been
\* made once for every ProgressEvery sampled frames processed so far, each
\* percentage it was given lies in [0, 100] and none is below an earlier
\* one; and no run ends by an exception of the progress computation,
\* whatever frame count the video's header gives.
C12_ProgressCallback ==
  \A a \in Instances :
    /\ (pc[a] # "idle" /\ run[a].cb) =>
         LET rep == run[a].reported
         IN  /\ Len(rep) = run[a].processed_frames \div ProgressEvery
             /\ \A i \in 1..Len(rep) : RatLE(Zero, rep[i]) /\ RatLE(rep[i], Hundred)
             /\ \A i, j \in 1..Len(rep) : i <= j => RatLE(rep[i], rep[j])
    /\ ~(/\ ret[a].op = "process_video"
         /\ ret[a].kind = "raise"
         /\ ret[a].at = "progress")

----------------------------------------------------------------------------
(* The totals of the video summary *)

\* The slots of an analyzer that hold at least one entry
NonEmptySlots(an) ==
  {i \in 1..Len(an.student_tracks) : an.student_tracks[i] # <<>>}

\* C13: when the loop of a process_video run on a new analyzer has ended,
\* the video summary the run is about to return has total_frames_analyzed
\* equal to the number of frames the run sampled, with or without
\* detections, video_duration equal to that number divided by fps, and
\* students_tracked equal to the number of non-empty slots.
C13_SummaryTotals ==
  \A a \in Instances :
    pc[a] = "cleanup" =>
      LET summary == generate_video_summary(analyzer[a])
          sampled == Len(run[a].detected)
      IN  summary.type = "video" =>
            /\ summary.total_frames_analyzed = sampled
            /\ summary.video_duration = Rat(sampled, analyzer[a].fps)
            /\ summary.students_tracked = Cardinality(NonEmptySlots(analyzer[a]))

----------------------------------------------------------------------------
(* SpecBoxes: the bounding boxes of the detection records.  The three      *)
(* producers of records are applied to images and to backend boxes.        *)

MaxCoord == 3        \* largest corner coordinate a backend box has

\* random.randint(80, 150) and random.randint(120, 200), lines 131-132
MockMinW == 80
MockMaxW == 150
MockMinH == 120
MockMaxH == 200

\* The values of random.randint(lo, hi) the model draws: both ends and
\* their neighbours.  The range is empty, and randint raises, when lo > hi.
Draws(lo, hi) == {lo, lo + 1, hi - 1, hi} \cap lo..hi

\* Lines 134-153: the box mock_detection builds from its four draws
MockBox(x_center, y_center, w, h) ==
  [x |-> Rat(x_center, 1), y |-> Rat(y_center, 1), width |-> w, height |-> h,
   x1 |-> x_center - w \div 2, y1 |-> y_center - h \div 2,
   x2 |-> x_center + w \div 2, y2 |-> y_center + h \div 2]

\* The boxes mock_detection can give a detection in image img
MockBoxes(img) ==
  {MockBox(x_center, y_center, w, h) :
     x_center \in Draws(MockMargin, img.width - MockMargin),
     y_center \in Draws(MockMargin, img.height - MockMargin),
     w \in Draws(MockMinW, MockMaxW),
     h \in Draws(MockMinH, MockMaxH)}

\* The corner boxes a YOLO backend reports: x1 < x2 and y1 < y2
BackendBoxes ==
  {b \in [x1 : 0..MaxCoord, y1 : 0..MaxCoord, x2 : 0..MaxCoord, y2 : 0..MaxCoord] :
     b.x1 < b.x2 /\ b.y1 < b.y2}

\* parse_yolov8_results, lines 167-190, for one box of result.boxes.xyxy
parse_yolov8_results(b) ==
  [x |-> Rat(b.x1 + b.x2, 2), y |-> Rat(b.y1 + b.y2, 2),
   width |-> b.x2 - b.x1, height |-> b.y2 - b.y1,
   x1 |-> b.x1, y1 |-> b.y1, x2 |-> b.x2, y2 |-> b.y2]

\* parse_yolov5_results, lines 202-225, for one row of the dataframe
parse_yolov5_results(row) ==
  [x |-> Rat(row.x1 + row.x2, 2), y |-> Rat(row.y1 + row.y2, 2),
   width |-> row.x2 - row.x1, height |-> row.y2 - row.y1,
   x1 |-> row.x1, y1 |-> row.y1, x2 |-> row.x2, y2 |-> row.y2]

BoxImages == {Image(640, 480), Image(200, 200), Image(160, 120), NoFile}

\* analyzer.mock_detection(image_path).  box is the box of one of the
\* detections returned; all of them are drawn in the same way.
MockDetectionCall(a) ==
  /\ Free(a)
  /\ \E img \in BoxImages : \E o \in mock_detection(img) :
       IF o.kind = "return" /\ o.results.predictions # <<>>
       THEN \E box \in MockBoxes(img) :
              ret' = Returned(a, [op |-> "mock_detection", kind |-> "return",
                                  image |-> img, results |-> o.results,
                                  box |-> box])
       ELSE ret' = Returned(a, [op |-> "mock_detection", image |-> img] @@ o)
  /\ UNCHANGED <<analyzer, pc, run, files, progress_tracker, worker, upload, pin,
                 calls>>

\* analyzer.parse_yolov8_results(result) on a result holding one box
ParseYolov8ResultsCall(a) ==
  /\ Free(a)
  /\ \E b \in BackendBoxes :
       ret' = Returned(a, [op |-> "parse_yolov8_results", kind |-> "return",
                           box |-> parse_yolov8_results(b)])
  /\ UNCHANGED <<analyzer, pc, run, files, progress_tracker, worker, upload, pin,
                 calls>>

\* analyzer.parse_yolov5_results(results) on a dataframe of one row
ParseYolov5ResultsCall(a) ==
  /\ Free(a)
  /\ \E row \in BackendBoxes :
       ret' = Returned(a, [op |-> "parse_yolov5_results", kind |-> "return",
                           box |-> parse_yolov5_results(row)])
  /\ UNCHANGED <<analyzer, pc, run, files, progress_tracker, worker, upload, pin,
                 calls>>

NextBoxes ==
  \/ MockDetectionCall(Caller)
  \/ ParseYolov8ResultsCall(Caller)
  \/ ParseYolov5ResultsCall(Caller)

SpecBoxes == Init /\ [][NextBoxes]_vars

\* A detection record with a box has been produced
BoxReturned(a) ==
  /\ ret[a].op \in {"mock_detection", "parse_yolov8_results", "parse_yolov5_results"}
  /\ ret[a].kind = "return"
  /\ "box" \in DOMAIN ret[a]

\* C14: every detection record, whether parsed from YOLOv8 or YOLOv5
\* output or made by mock_detection, has x = (x1 + x2) / 2,
\* y = (y1 + y2) / 2, width = x2 - x1, height = y2 - y1, x1 < x2 and
\* y1 < y2.
C14_BoxConsistent ==
  \A a \in Instances :
    BoxReturned(a) =>
      LET b == ret[a].box
      IN  /\ b.x = Rat(b.x1 + b.x2, 2)
          /\ b.y = Rat(b.y1 + b.y2, 2)
          /\ b.width = b.x2 - b.x1
          /\ b.height = b.y2 - b.y1
          /\ b.x1 < b.x2
          /\ b.y1 < b.y2

\* C15: for every image that can be decoded, whatever its size,
\* mock_detection returns, with 2 to 5 detections whose labels are in the
\* activity vocabulary and whose boxes lie inside the image.
C15_MockDetectionAnySize ==
  \A a \in Instances :
    (ret[a].op = "mock_detection" /\ ret[a].image # NoFile) =>
      /\ ret[a].kind = "return"
      /\ LET preds == ret[a].results.predictions
             b == ret[a].box
             img == ret[a].image
         IN  /\ Len(preds) \in MockMinDetections..MockMaxDetections
             /\ \A i \in 1..Len(preds) : preds[i].class \in Vocabulary
             /\ 0 <= b.x1 /\ b.x1 < b.x2 /\ b.x2 <= img.width
             /\ 0 <= b.y1 /\ b.y1 < b.y2 /\ b.y2 <= img.height

----------------------------------------------------------------------------
(* Empty detection lists *)

\* The results hold no detection
NoDetections(results) ==
  results = EmptyDict \/ ~HasPredictions(results) \/ results.predictions = <<>>

\* C16: generate_image_summary on results without detections returns the
\* 'no detections' indicator, and process_single_image, when it returns,
\* hands its caller a summary or that indicator, never None.
C16_EmptyImageExplicit ==
  \A a \in Instances :
    /\ (ret[a].op = "generate_image_summary" /\ NoDetections(ret[a].results)) =>
         ret[a].summary.type = "error"
    /\ (ret[a].op = "process_single_image" /\ ret[a].kind = "return") =>
         ret[a].summary # None


\* C17: when the loop of a process_video run on a new analyzer has ended,
\* generate_video_summary gives the 'no results' indicator exactly when the
\* run sampled no frame; a run whose sampled frames all came back without
\* detections gets a video summary with zero students tracked.
C17_NoResultsIndicator ==
  \A a \in Instances :
    pc[a] = "cleanup" =>
      LET summary == generate_video_summary(analyzer[a])
          sampled == Len(run[a].detected)
      IN  /\ summary.type = "error" <=> sampled = 0
          /\ (sampled > 0 /\ analyzer[a].student_tracks = <<>>) =>
               /\ summary.type = "video"
               /\ summary.students_tracked = 0

----------------------------------------------------------------------------
(* One detection per sampled frame *)

\* The label of the one detection stored for the i-th frame with detections
LabelOf(an, i) == an.detection_results[i].detections.predictions[1].class

\* Every frame the run sampled came back with exactly one detection
OnePerFrame(a) ==
  /\ Len(run[a].detected) > 0
  /\ Len(analyzer[a].detection_results) = Len(run[a].detected)
  /\ \A i \in 1..Len(analyzer[a].detection_results) :
       Len(analyzer[a].detection_results[i].detections.predictions) = 1

\* The labels are in turn one attentive and one distracted activity
Alternating(an) ==
  LET m == Len(an.detection_results)
  IN  /\ \A i \in 1..m :
           LabelOf(an, i) \in attentive_activities \cup distracted_activities
      /\ \A i \in 1..(m - 1) :
           LabelOf(an, i) \in attentive_activities
             <=> LabelOf(an, i + 1) \in distracted_activities

\* C18: when the loop of a process_video run on a new analyzer has ended
\* and each of its m sampled frames gave exactly one detection, the video
\* summary has the single slot 0, whose timeline holds the m detections in
\* the order of the sampled frames; if the labels alternate between
\* attentive and distracted and m is even, the slot is 50 percent
\* attentive, 50 percent distracted and classified 'Distracted'.
C18_OneDetectionPerFrame ==
  \A a \in Instances :
    (pc[a] = "cleanup" /\ OnePerFrame(a)) =>
      LET an == analyzer[a]
          m == Len(run[a].detected)
          summary == generate_video_summary(an)
      IN  /\ summary.type = "video"
          /\ DOMAIN summary.student_analysis = {0}
          /\ LET slot == summary.student_analysis[0]
             IN  /\ Len(slot.timeline) = m
                 /\ slot.total_detections = m
                 /\ \A i \in 1..m :
                      /\ slot.timeline[i].frame = run[a].detected[i].frame
                      /\ slot.timeline[i].activity = LabelOf(an, i)
                 /\ (Alternating(an) /\ m % 2 = 0) =>
                      /\ slot.attentive_percentage = Rat(50, 1)
                      /\ slot.distracted_percentage = Rat(50, 1)
                      /\ slot.classification = "Distracted"

\* two sampled frames, 'listening' then 'sleeping'
C18_Witness ==
  /\ pc[Caller] = "cleanup"
  /\ OnePerFrame(Caller)
  /\ Len(run[Caller].detected) = 2
  /\ run[Caller].detected[2].frame = 2
  /\ LabelOf(analyzer[Caller], 1) = "listening"
  /\ LabelOf(analyzer[Caller], 2) = "sleeping"
  /\ generate_video_summary(analyzer[Caller]).student_analysis[0].classification
       = "Distracted"

----------------------------------------------------------------------------
(* Order of the stored frames and shape of the slots *)

\* The frame numbers of a timeline or of detection_results
FramesOf(entries) == [i \in 1..Len(entries) |-> entries[i].frame]

StrictlyIncreasing(seq) == \A i \in 1..(Len(seq) - 1) : seq[i] < seq[i + 1]

\* C19: in every state of a process_video run on a new analyzer the frame
\* numbers of detection_results are strictly increasing, and so are those
\* of every slot's timeline; each of them is a multiple of the stride, and
\* every entry of detection_results holds at least one detection.
C19_FramesIncreasing ==
  \A a \in Instances :
    pc[a] # "idle" =>
      LET an == analyzer[a]
          k == run[a].sample_rate
      IN  /\ StrictlyIncreasing(FramesOf(an.detection_results))
          /\ \A i \in 1..Len(an.detection_results) :
               /\ an.detection_results[i].frame % k = 0
               /\ an.detection_results[i].frame >= 0
               /\ Len(an.detection_results[i].detections.predictions) >= 1
          /\ \A s \in 1..Len(an.student_tracks) :
               /\ StrictlyIncreasing(FramesOf(an.student_tracks[s]))
               /\ \A i \in 1..Len(an.student_tracks[s]) :
                    an.student_tracks[s][i].frame % k = 0

\* frames 0 and 2 of a run with stride 2 are stored, in this order
C19_Witness ==
  /\ pc[Caller] = "cleanup"
  /\ run[Caller].sample_rate = 2
  /\ FramesOf(analyzer[Caller].detection_results) = <<0, 2>>
  /\ Len(analyzer[Caller].student_tracks) = 2
  /\ FramesOf(analyzer[Caller].student_tracks[1]) = <<0, 2>>


\* SpecRuns: a process_video run on an analyzer that is new or has been
\* reset, and reset_analysis after the run.  A reset analyzer is a new one
\* but for the fps the last video left.  detect_objects treats the two
\* YOLO model types alike; one of them stands for both.  FpsValues are the
\* default and the rates of the videos whose frames process_video reads.
FpsValues ==
  {DefaultFps} \cup {v.fps : v \in {w \in Videos \ {Unopenable} : w.fps > 0}}

InitRuns ==
  /\ \E mt \in {"yolov8", "mock"}, fps \in FpsValues :
       analyzer = [a \in Instances |-> [NewAnalyzer(mt) EXCEPT !.fps = fps]]
  /\ pc = [a \in Instances |-> "idle"]
  /\ run = [a \in Instances |-> NoRun]
  /\ ret = [a \in Instances |-> NoRet]
  /\ files = [p \in TempPaths |-> NoFile]
  /\ progress_tracker = [s \in Sessions |-> NoEntry]
  /\ worker = [a \in Instances |-> NoWorker]
  /\ upload = [s \in Sessions |-> NoUpload]
  /\ pin = <<>>
  /\ calls = [a \in Instances |-> 0]

NextRuns ==
  \/ Next
  \/ ResetAnalysisCall(Caller)

SpecRuns == InitRuns /\ [][NextRuns]_vars

\* The largest number of detections of a stored frame
MaxDetections(an) ==
  LET counts == {Len(an.detection_results[i].detections.predictions) :
                   i \in 1..Len(an.detection_results)}
  IN  IF counts = {} THEN 0 ELSE CHOOSE n \in counts : \A m \in counts : m <= n

\* C20: in every state process_video runs reach from a new or a reset
\* analyzer, a slot is never longer than the slot before it (so a slot is
\* non-empty only if the one before it is), slot 0 has as many entries as
\* detection_results, and the number of non-empty slots is the largest
\* number of detections of a stored frame.
C20_SlotsPrefixClosed ==
  \A a \in Instances :
    LET an == analyzer[a]
        t == an.student_tracks
    IN  /\ \A i \in 1..(Len(t) - 1) :
             /\ Len(t[i]) >= Len(t[i + 1])
             /\ t[i + 1] # <<>> => t[i] # <<>>
        /\ SlotOf(t, 1) = <<>> <=> an.detection_results = <<>>
        /\ Len(SlotOf(t, 1)) = Len(an.detection_results)
        /\ Cardinality(NonEmptySlots(an)) = MaxDetections(an)

\* a frame with two detections and a frame with one are stored
C20_Witness ==
  /\ Len(analyzer[Caller].detection_results) = 2
  /\ MaxDetections(analyzer[Caller]) = 2
  /\ Len(analyzer[Caller].student_tracks) = 2
  /\ Len(analyzer[Caller].student_tracks[1]) = 2
  /\ Len(analyzer[Caller].student_tracks[2]) = 1
  /\ Len(analyzer[Caller].detection_results[1].detections.predictions) = 1


----------------------------------------------------------------------------
(* process_video on an analyzer that has processed a video before *)

\* The step in which reset_analysis is called on a
ResetStep(a) == calls'[a] # calls[a] /\ ret'[a].op = "reset_analysis"

\* The step in which a process_video call builds its summary and returns,
\* the previous call on the same analyzer being a process_video call that
\* opened its video and returned a summary (not the None of line 286)
SecondReturn(a) ==
  /\ pc[a] = "cleanup" /\ pc'[a] = "idle"
  /\ ret[a].op = "process_video" /\ ret[a].kind = "return"
  /\ ret[a].summary # None
  /\ ret'[a].kind = "return"

\* total_frames_analyzed of a summary; an error summary and None count none
FramesAnalyzed(summary) ==
  IF summary.type = "video" THEN summary.total_frames_analyzed ELSE 0

\* The timeline a summary gives for student_i, empty when it has none
TimelineIn(summary, i) ==
  IF summary.type = "video" /\ i \in DOMAIN summary.student_analysis
  THEN summary.student_analysis[i].timeline ELSE <<>>

\* total_detections a summary gives for student_i, 0 when it has none
DetectionsIn(summary, i) ==
  IF summary.type = "video" /\ i \in DOMAIN summary.student_analysis
  THEN summary.student_analysis[i].total_detections ELSE 0

\* The number of stored frame results with more than i detections
FramesWithSlot(records, i) ==
  Cardinality({j \in 1..Len(records) :
                 Len(records[j].detections.predictions) > i})

\* C21: process_video never clears what the analyzer has accumulated.  No
\* step other than a reset_analysis call removes or changes a stored frame
\* result or a timeline entry.  When process_video returns on an analyzer
\* whose previous call was a process_video that returned a summary, with no
\* reset_analysis between, the stored results are those of the first run
\* followed by those of the second (frames the second run sampled, in
\* increasing order); the second summary's total_frames_analyzed is the
\* first summary's plus the number of results the second run stored, and
\* for every slot total_detections is the first summary's plus the number
\* of second-run results that reach the slot, the first summary's timeline
\* being the beginning of the second's.
C21_ProcessVideoAccumulates ==
  [][\A a \in Instances :
       LET old == analyzer[a]
           new == analyzer'[a]
       IN  /\ ~ResetStep(a) =>
                /\ IsPrefix(old.detection_results, new.detection_results)
                /\ \A i \in 1..Len(old.student_tracks) :
                     IsPrefix(old.student_tracks[i], SlotOf(new.student_tracks, i))
           /\ SecondReturn(a) =>
                LET first == ret[a].summary
                    second == ret'[a].summary
                    stored == new.detection_results
                    added == SubSeq(stored, FramesAnalyzed(first) + 1, Len(stored))
                IN  /\ FramesAnalyzed(second) = FramesAnalyzed(first) + Len(added)
                    /\ StrictlyIncreasing(FramesOf(added))
                    /\ \A j \in 1..Len(added) :
                         /\ IsSampled(added[j].frame, run[a].sample_rate)
                         /\ added[j].frame < run[a].video.frames
                    /\ \A i \in 0..(Len(new.student_tracks) - 1) :
                         /\ DetectionsIn(second, i)
                              = DetectionsIn(first, i) + FramesWithSlot(added, i)
                         /\ IsPrefix(TimelineIn(first, i), TimelineIn(second, i))]_vars

\* Two runs without a reset between have returned: the summary counts a
\* frame of each, and the timeline of student_0 holds frame 0 twice, so it
\* is no longer increasing in frame number.
C21_Witness ==
  /\ pc[Caller] = "idle"
  /\ calls[Caller] = 2
  /\ ret[Caller].op = "process_video" /\ ret[Caller].kind = "return"
  /\ ret[Caller].summary.type = "video"
  /\ ret[Caller].summary.total_frames_analyzed = 2
  /\ ret[Caller].summary.student_analysis[0].total_detections = 2
  /\ FramesOf(analyzer[Caller].student_tracks[1]) = <<0, 0>>
  /\ ~StrictlyIncreasing(FramesOf(ret[Caller].summary.student_analysis[0].timeline))

\* SpecTwice: a caller processes a video of 25 frames per second on a newly
\* constructed YOLO-backed analyzer and then, on the same analyzer, calls
\* process_video with a video of 30 frames per second, or reset_analysis.
\* The first run samples fewer than MaxResults frames, the runs together at
\* most MaxResults.
TwiceVideos(f) == {Video(n, f, 640, 480) : n \in 0..MaxFrames}

ProcessVideoFirst(a) ==
  /\ Free(a)
  /\ calls[a] = 0
  /\ calls' = [calls EXCEPT ![a] = 1]
  /\ \E v \in TwiceVideos(25), k \in 1..MaxStride :
       /\ SampledCount(v, k) < MaxResults
       /\ ProcessVideoBegin(a, v, k, FALSE, FALSE)
  /\ UNCHANGED <<worker, upload, pin>>

ProcessVideoSecond(a) ==
  /\ Again(a)
  /\ \E v \in TwiceVideos(30), k \in 1..MaxStride :
       /\ LongestTimeline(analyzer[a]) + SampledCount(v, k) <= MaxResults
       /\ ProcessVideoBegin(a, v, k, FALSE, FALSE)
  /\ UNCHANGED <<worker, upload, pin>>

InitTwice ==
  /\ Init
  /\ analyzer[Caller].model_type = "yolov8"

NextTwice ==
  \/ ProcessVideoFirst(Caller)
  \/ ProcessVideoSecond(Caller)
  \/ ResetAnalysisCall(Caller)
  \/ ReadFrame(Caller)
  \/ WriteTempFrame(Caller)
  \/ DetectObjects(Caller)
  \/ CheckTempExists(Caller)
  \/ RemoveTemp(Caller)
  \/ RecordStep(Caller)
  \/ Cleanup(Caller)

SpecTwice == InitTwice /\ [][NextTwice]_vars


----------------------------------------------------------------------------
(* The progress-tracker entry a poller sees *)

\* C22: for every session, the entry get_progress returns evolves
\* monotonically under every interleaving of start_processing requests,
\* worker threads and progress callbacks: the progress value never
\* decreases and lies in [0, 100]; a 'completed' entry has progress 100 and
\* a summary; and an entry that is 'completed' or 'error' never changes
\* again, not even when start_processing is invoked again for the session.
C22_TrackerMonotone ==
  [][\A s \in Sessions :
       LET old == get_progress(progress_tracker, s)
           new == get_progress(progress_tracker', s)
       IN  /\ RatLE(old.progress, new.progress)
           /\ RatLE(Zero, new.progress) /\ RatLE(new.progress, Hundred)
           /\ new.status = "completed" =>
                new.progress = Hundred /\ "summary" \in DOMAIN new
           /\ old.status \in {"completed", "error"} =>
                progress_tracker'[s] = progress_tracker[s]]_vars

====
